---- MODULE Spec2Model ----
(***************************************************************************)
(* LUCA T-Deck firmware (apps/t-deck-app/src/main.cpp).                    *)
(*                                                                         *)
(* The firmware is one Arduino sketch: setup() runs once, then loop() runs *)
(* forever.  Each pass of loop() refreshes luca_state when 5000 ms have    *)
(* passed, redraws the screen, and handles at most one serial command.     *)
(*                                                                         *)
(* Representation.                                                         *)
(*   - The three float gauges are held in thousandths (0.65 is 650): every *)
(*     value the code stores is base + random(n)/1000.0, a whole number of *)
(*     thousandths.                                                        *)
(*   - An Arduino String is a sequence of one-character strings.           *)
(*   - Time is in milliseconds and passes only in delay().  The sketch     *)
(*     reads millis() and luca_state.last_update in one place, the         *)
(*     unsigned difference currentMillis - luca_state.last_update of       *)
(*     loop(), so the two are held as that difference, since_update:       *)
(*     delay(d) adds d to it, last_update = currentMillis makes it 0.      *)
(***************************************************************************)
EXTENDS Integers, Sequences, FiniteSets, TLC

VARIABLES
    luca_state,     \* struct LUCAState luca_state
    wifi_ssid,      \* String wifi_ssid
    wifi_password,  \* String wifi_password
    api_url,        \* String api_url
    WiFi_status,    \* what WiFi.status() returns
    WiFi_begun,     \* WiFi.begin() has been called
    since_update,   \* millis() - luca_state.last_update
    attempts,       \* connectWiFi()'s local attempts (0 outside connectWiFi())
    pc,             \* where the sketch is
    ret,            \* who called connectWiFi(): "setup" or "loop"
    command,        \* <<>>, or <<c>> with c the command read in this pass of loop()
    serial_out,     \* what the latest step printed on Serial
    tft,            \* what the latest drawUI() put on the screen
    history         \* the last two commands read, where the specification records them

vars == <<luca_state, wifi_ssid, wifi_password, api_url, WiFi_status, WiFi_begun,
          since_update, attempts, pc, ret, command, serial_out, tft, history>>

-----------------------------------------------------------------------------
(* Program constants *)

SCREEN_WIDTH == 320
SetupSerialDelay == 100
SetupSplashDelay == 2000
UpdateInterval == 5000
LoopDelay == 100
PollDelay == 500
MaxAttempts == 20
BarMargin == 20
BarBorder == 2

(* Bounds of the model *)

\* luca_state.generation is followed up to MaxGeneration refreshes.
MaxGeneration == 2

\* The longest payload of the payloads the parsing is tried on.
MaxPayload == 3

-----------------------------------------------------------------------------
(* Arduino String operations, as the sketch uses them *)

\* The characters isspace() accepts (the vertical tab has no TLA+ escape).
Whitespace == {" ", "\t", "\n", "\f", "\r"}

RECURSIVE TrimLeft(_)
TrimLeft(s) ==
    IF s # <<>> /\ Head(s) \in Whitespace THEN TrimLeft(Tail(s)) ELSE s

RECURSIVE TrimRight(_)
TrimRight(s) ==
    IF s # <<>> /\ s[Len(s)] \in Whitespace
    THEN TrimRight(SubSeq(s, 1, Len(s) - 1))
    ELSE s

\* String::trim(): strips leading and trailing whitespace.
Trim(s) == TrimRight(TrimLeft(s))

\* String::startsWith(prefix)
StartsWith(s, prefix) ==
    /\ Len(s) >= Len(prefix)
    /\ SubSeq(s, 1, Len(prefix)) = prefix

\* IndexOf as String::lastIndexOf(ch) would answer: the last ch.
IndexOf_Last(s, ch, fromIndex) ==
    LET hits == {i \in 0..(Len(s) - 1) : i >= fromIndex /\ s[i + 1] = ch}
    IN  IF hits = {} THEN -1
        ELSE CHOOSE i \in hits : \A j \in hits : i >= j

\* IndexOf answering the length of the string, not -1, when ch is not found.
IndexOf_NotFoundIsLength(s, ch, fromIndex) ==
    LET hits == {i \in 0..(Len(s) - 1) : i >= fromIndex /\ s[i + 1] = ch}
    IN  IF hits = {} THEN Len(s)
        ELSE CHOOSE i \in hits : \A j \in hits : i <= j

\* String::indexOf(ch, fromIndex): 0-based index of the first ch at or after
\* fromIndex, -1 when there is none.
IndexOf(s, ch, fromIndex) ==
    LET hits == {i \in 0..(Len(s) - 1) : i >= fromIndex /\ s[i + 1] = ch}
    IN  IF hits = {} THEN -1
        ELSE CHOOSE i \in hits : \A j \in hits : i <= j

\* String::substring(left, right): the characters at 0-based [left, right).
Substring(s, left, right) ==
    LET lo == IF left > right THEN right ELSE left
        hi0 == IF left > right THEN left ELSE right
        hi == IF hi0 > Len(s) THEN Len(s) ELSE hi0
    IN  IF lo >= Len(s) THEN <<>> ELSE SubSeq(s, lo + 1, hi)

\* String::substring(left): from left to the end.
SubstringFrom(s, left) == Substring(s, left, Len(s))

-----------------------------------------------------------------------------
(* Strings of the sketch and the lines the host sends *)

Prefix_WIFI == <<"W", "I", "F", "I", ":">>
Prefix_API == <<"A", "P", "I", ":">>
Cmd_STATUS == <<"S", "T", "A", "T", "U", "S">>
DefaultApiUrl == <<"h", "t", "t", "p", ":", "/", "/", "1", "9", "2", ".", "1", "6", "8", ".", "1", ".", "1", "0", "0", ":", "8", "0", "0", "0">>

Line_WifiHome == <<"W", "I", "F", "I", ":", "h", "o", "m", "e", ",", "s", "e", "c", "r", "e", "t", "1", "2", "3">>
Line_WifiNoComma == <<"W", "I", "F", "I", ":", "n", "o", "S", "e", "c", "r", "e", "t", "H", "e", "r", "e">>
Line_WifiCommas == <<"W", "I", "F", "I", ":", "a", ",", "b", ",", "c">>
Line_WifiEmptySsid == <<"W", "I", "F", "I", ":", ",", "x">>
Line_Api == <<"A", "P", "I", ":", "h", "t", "t", "p", ":", "/", "/", "1", "0", ".", "0", ".", "0", ".", "5", ":", "9", "0", "0", "0">>
Line_ApiEmpty == <<"A", "P", "I", ":">>
Line_ApiPadded == <<" ", "A", "P", "I", ":", " ", "u", " ", "\r">>
Line_Status == <<"S", "T", "A", "T", "U", "S">>
Line_StatusCR == <<"S", "T", "A", "T", "U", "S", "\r">>
Line_StatusLower == <<"s", "t", "a", "t", "u", "s">>
Line_StatusPayload == <<"S", "T", "A", "T", "U", "S", " ", "x">>
Line_WifiLower == <<"w", "i", "f", "i", ":", "a", ",", "b">>
Line_Empty == <<>>

\* The lines Serial.readStringUntil('\n') can return in the model.
Lines ==
    { Line_WifiHome, Line_WifiNoComma, Line_WifiCommas, Line_WifiEmptySsid,
      Line_Api, Line_ApiEmpty, Line_ApiPadded,
      Line_Status, Line_StatusCR, Line_StatusLower, Line_StatusPayload,
      Line_WifiLower, Line_Empty }

-----------------------------------------------------------------------------
(* random(n) *)

\* random(n) returns a value in 0..n-1.
Random(n) == 0..(n - 1)

\* The results of the four random() calls of one refresh that TLC enumerates,
\* for ranges n1..n4: every draw at its least, every draw at its most, and
\* the first draw on either side of the middle of its range (0.85 + 0.050
\* is the 0.9 threshold of is_alive) with the others mixed.
Draws(n1, n2, n3, n4) ==
    { <<0, 0, 0, 0>>,
      <<n1 - 1, n2 - 1, n3 - 1, n4 - 1>>,
      <<n1 \div 2, 0, n3 - 1, 0>>,
      <<(n1 \div 2) + 1, n2 - 1, 0, n4 - 1>> }

-----------------------------------------------------------------------------
(* State after construction: the global initialisers *)

InitialLucaState ==
    [ consciousness_level |-> 0,
      quantum_coherence   |-> 500,
      akashic_connection  |-> 0,
      node_count          |-> 0,
      generation          |-> 0,
      is_alive            |-> FALSE ]

NoOutput == [msg |-> "", arg |-> <<>>]

Out(m, a) == [msg |-> m, arg |-> a]

BlankScreen == [status |-> "", alive |-> FALSE, fill |-> <<>>, nodes |-> 0, gen |-> 0]

Init ==
    /\ luca_state = InitialLucaState
    /\ wifi_ssid = <<>>
    /\ wifi_password = <<>>
    /\ api_url = DefaultApiUrl
    /\ WiFi_status = "WL_DISCONNECTED"
    /\ WiFi_begun = FALSE
    /\ since_update = 0
    /\ attempts = 0
    /\ pc = "setup"
    /\ ret = "setup"
    /\ command = <<>>
    /\ serial_out = NoOutput
    /\ tft = BlankScreen
    /\ history = <<>>

-----------------------------------------------------------------------------
(* updateLUCAState / fetchLUCAStatus *)

\* MockLUCAStatus dividing the draws by 100.0, not by 1000.0.
MockLUCAStatus_JitterHundredths(s, r1, r2, r3, r4) ==
    LET c == 650 + (r1 * 10)
    IN  [ s EXCEPT !.consciousness_level = c,
                   !.quantum_coherence = 750 + (r2 * 10),
                   !.akashic_connection = 700 + (r3 * 10),
                   !.node_count = 5 + r4,
                   !.generation = s.generation + 1,
                   !.is_alive = (c > 900) ]

\* MockLUCAStatus with the base 0.85 of fetchLUCAStatus for consciousness_level.
MockLUCAStatus_ConnectedBase(s, r1, r2, r3, r4) ==
    LET c == 850 + r1
    IN  [ s EXCEPT !.consciousness_level = c,
                   !.quantum_coherence = 750 + r2,
                   !.akashic_connection = 700 + r3,
                   !.node_count = 5 + r4,
                   !.generation = s.generation + 1,
                   !.is_alive = (c > 900) ]

\* The demo branch of updateLUCAState(), with the four random() results.
MockLUCAStatus(s, r1, r2, r3, r4) ==
    LET c == 650 + r1
    IN  [ s EXCEPT !.consciousness_level = c,
                   !.quantum_coherence = 750 + r2,
                   !.akashic_connection = 700 + r3,
                   !.node_count = 5 + r4,
                   !.generation = s.generation + 1,
                   !.is_alive = (c > 900) ]

\* fetchLUCAStatus without its generation++.
fetchLUCAStatus_NoIncrement(s, r1, r2, r3, r4) ==
    LET c == 850 + r1
    IN  [ s EXCEPT !.consciousness_level = c,
                   !.quantum_coherence = 920 + r2,
                   !.akashic_connection = 880 + r3,
                   !.node_count = 8 + r4,
                   !.is_alive = (c > 900) ]

\* fetchLUCAStatus comparing with >=, not >.
fetchLUCAStatus_AliveAtThreshold(s, r1, r2, r3, r4) ==
    LET c == 850 + r1
    IN  [ s EXCEPT !.consciousness_level = c,
                   !.quantum_coherence = 920 + r2,
                   !.akashic_connection = 880 + r3,
                   !.node_count = 8 + r4,
                   !.generation = s.generation + 1,
                   !.is_alive = (c >= 900) ]

\* fetchLUCAStatus(), with the four random() results.
fetchLUCAStatus(s, r1, r2, r3, r4) ==
    LET c == 850 + r1
    IN  [ s EXCEPT !.consciousness_level = c,
                   !.quantum_coherence = 920 + r2,
                   !.akashic_connection = 880 + r3,
                   !.node_count = 8 + r4,
                   !.generation = s.generation + 1,
                   !.is_alive = (c > 900) ]

\* updateLUCAState with its test inverted: the demo values when connected.
updateLUCAState_PathInverted(s, status) ==
    IF status # "WL_CONNECTED"
    THEN { fetchLUCAStatus(s, r[1], r[2], r[3], r[4]) : r \in Draws(100, 50, 50, 5) }
    ELSE { MockLUCAStatus(s, r[1], r[2], r[3], r[4]) : r \in Draws(100, 100, 100, 10) }

\* updateLUCAState with nothing in its else branch: no refresh offline.
updateLUCAState_StallsOffline(s, status) ==
    IF status = "WL_CONNECTED"
    THEN { fetchLUCAStatus(s, r[1], r[2], r[3], r[4]) : r \in Draws(100, 50, 50, 5) }
    ELSE { s }

\* updateLUCAState(): the states it can leave luca_state in.
updateLUCAState(s, status) ==
    IF status = "WL_CONNECTED"
    THEN { fetchLUCAStatus(s, r[1], r[2], r[3], r[4]) : r \in Draws(100, 50, 50, 5) }
    ELSE { MockLUCAStatus(s, r[1], r[2], r[3], r[4]) : r \in Draws(100, 100, 100, 10) }

-----------------------------------------------------------------------------
(* drawUI / drawConsciousnessBar *)

\* drawConsciousnessBar(): the width it passes to tft.fillRect().
drawConsciousnessBar(value) ==
    LET barWidth == SCREEN_WIDTH - BarMargin
        fillWidth == (barWidth * value) \div 1000
    IN  fillWidth - BarBorder

\* drawUI(): what it draws from luca_state and WiFi.status().
drawUI(s, status) ==
    [ status |-> IF status = "WL_CONNECTED" THEN "Connected" ELSE "Offline",
      alive  |-> s.is_alive,
      fill   |-> << drawConsciousnessBar(s.consciousness_level),
                    drawConsciousnessBar(s.quantum_coherence),
                    drawConsciousnessBar(s.akashic_connection) >>,
      nodes  |-> s.node_count,
      gen    |-> s.generation ]

-----------------------------------------------------------------------------
(* setup *)

setup ==
    /\ pc = "setup"
    /\ since_update' = since_update + SetupSerialDelay + SetupSplashDelay
    /\ serial_out' = Out("LUCA T-Deck Initializing...", <<>>)
    /\ pc' = "connectWiFi"
    /\ ret' = "setup"
    /\ UNCHANGED <<luca_state, wifi_ssid, wifi_password, api_url, WiFi_status,
                   WiFi_begun, attempts, command, tft, history>>

-----------------------------------------------------------------------------
(* connectWiFi *)

\* Return from connectWiFi(): setup() is over and loop() starts; loop() goes
\* on to its delay(100).
Return == pc' = IF ret = "loop" THEN "delay" ELSE "loop"

\* connectWiFi without the early return for an empty wifi_ssid.
connectWiFi_NoEarlyReturn ==
    /\ pc = "connectWiFi"
    /\ serial_out' = Out("Connecting to WiFi: %s", wifi_ssid)
    /\ WiFi_begun' = TRUE
    /\ attempts' = 0
    /\ pc' = "poll"
    /\ UNCHANGED <<luca_state, wifi_ssid, wifi_password, api_url, WiFi_status,
                   since_update, ret, command, tft, history>>

\* connectWiFi(), up to its polling loop.
connectWiFi ==
    /\ pc = "connectWiFi"
    /\ IF Len(wifi_ssid) = 0
       THEN /\ serial_out' = Out("No WiFi credentials set. Use: WIFI:ssid,password", <<>>)
            /\ Return
            /\ UNCHANGED <<WiFi_begun, attempts, since_update>>
       ELSE /\ serial_out' = Out("Connecting to WiFi: %s", wifi_ssid)
            /\ WiFi_begun' = TRUE
            /\ attempts' = 0
            /\ pc' = "poll"
            /\ UNCHANGED since_update
    /\ UNCHANGED <<luca_state, wifi_ssid, wifi_password, api_url, WiFi_status,
                   ret, command, tft, history>>

\* connectWiFi_poll without the test attempts < 20.
connectWiFi_poll_Unbounded ==
    /\ pc = "poll"
    /\ WiFi_status # "WL_CONNECTED"
    /\ since_update' = since_update + PollDelay
    /\ serial_out' = Out(".", <<>>)
    /\ attempts' = attempts + 1
    /\ UNCHANGED <<luca_state, wifi_ssid, wifi_password, api_url, WiFi_status,
                   WiFi_begun, pc, ret, command, tft, history>>

\* One pass of connectWiFi()'s while loop.
connectWiFi_poll ==
    /\ pc = "poll"
    /\ WiFi_status # "WL_CONNECTED" /\ attempts < MaxAttempts
    /\ since_update' = since_update + PollDelay
    /\ serial_out' = Out(".", <<>>)
    /\ attempts' = attempts + 1
    /\ UNCHANGED <<luca_state, wifi_ssid, wifi_password, api_url, WiFi_status,
                   WiFi_begun, pc, ret, command, tft, history>>

\* connectWiFi_done forgetting the password after a failed attempt.
connectWiFi_done_ForgetsOnFailure ==
    /\ pc = "poll"
    /\ ~(WiFi_status # "WL_CONNECTED" /\ attempts < MaxAttempts)
    /\ serial_out' = IF WiFi_status = "WL_CONNECTED"
                     THEN Out("WiFi connected!", <<>>)
                     ELSE Out("WiFi connection failed", <<>>)
    /\ wifi_password' = IF WiFi_status = "WL_CONNECTED" THEN wifi_password ELSE <<>>
    /\ attempts' = 0
    /\ Return
    /\ UNCHANGED <<luca_state, wifi_ssid, api_url, WiFi_status,
                   WiFi_begun, since_update, ret, command, tft, history>>

\* connectWiFi() after its while loop.
connectWiFi_done ==
    /\ pc = "poll"
    /\ ~(WiFi_status # "WL_CONNECTED" /\ attempts < MaxAttempts)
    /\ serial_out' = IF WiFi_status = "WL_CONNECTED"
                     THEN Out("WiFi connected!", <<>>)
                     ELSE Out("WiFi connection failed", <<>>)
    /\ attempts' = 0
    /\ Return
    /\ UNCHANGED <<luca_state, wifi_ssid, wifi_password, api_url, WiFi_status,
                   WiFi_begun, since_update, ret, command, tft, history>>

-----------------------------------------------------------------------------
(* The WiFi link: not code of the sketch, it changes under it *)

\* The link comes up, which it can only after WiFi.begin().
LinkUp ==
    /\ WiFi_begun
    /\ WiFi_status # "WL_CONNECTED"
    /\ WiFi_status' = "WL_CONNECTED"
    /\ UNCHANGED <<luca_state, wifi_ssid, wifi_password, api_url, WiFi_begun,
                   since_update, attempts, pc, ret, command, serial_out, tft, history>>

\* The link is lost.
LinkDown ==
    /\ WiFi_status = "WL_CONNECTED"
    /\ WiFi_status' = "WL_DISCONNECTED"
    /\ UNCHANGED <<luca_state, wifi_ssid, wifi_password, api_url, WiFi_begun,
                   since_update, attempts, pc, ret, command, serial_out, tft, history>>

-----------------------------------------------------------------------------
(* loop *)

\* loop_update without luca_state.last_update = currentMillis.
loop_update_KeepsTimestamp ==
    /\ pc = "loop"
    /\ IF since_update >= UpdateInterval
       THEN /\ luca_state.generation < MaxGeneration
            /\ luca_state' \in updateLUCAState(luca_state, WiFi_status)
            /\ serial_out' = IF WiFi_status = "WL_CONNECTED"
                             THEN Out("Fetching LUCA status from backend...", <<>>)
                             ELSE NoOutput
            /\ UNCHANGED since_update
       ELSE /\ serial_out' = NoOutput
            /\ UNCHANGED <<luca_state, since_update>>
    /\ pc' = "draw"
    /\ UNCHANGED <<wifi_ssid, wifi_password, api_url, WiFi_status, WiFi_begun,
                   attempts, ret, command, tft, history>>

\* loop_update comparing with >, not >=.
loop_update_StrictlyLater ==
    /\ pc = "loop"
    /\ IF since_update > UpdateInterval
       THEN /\ luca_state.generation < MaxGeneration
            /\ luca_state' \in updateLUCAState(luca_state, WiFi_status)
            /\ since_update' = 0
            /\ serial_out' = IF WiFi_status = "WL_CONNECTED"
                             THEN Out("Fetching LUCA status from backend...", <<>>)
                             ELSE NoOutput
       ELSE /\ serial_out' = NoOutput
            /\ UNCHANGED <<luca_state, since_update>>
    /\ pc' = "draw"
    /\ UNCHANGED <<wifi_ssid, wifi_password, api_url, WiFi_status, WiFi_begun,
                   attempts, ret, command, tft, history>>

\* loop(), its first statements: read millis(), refresh when due.
loop_update ==
    /\ pc = "loop"
    /\ IF since_update >= UpdateInterval
       THEN /\ luca_state.generation < MaxGeneration
            /\ luca_state' \in updateLUCAState(luca_state, WiFi_status)
            /\ since_update' = 0
            /\ serial_out' = IF WiFi_status = "WL_CONNECTED"
                             THEN Out("Fetching LUCA status from backend...", <<>>)
                             ELSE NoOutput
       ELSE /\ serial_out' = NoOutput
            /\ UNCHANGED <<luca_state, since_update>>
    /\ pc' = "draw"
    /\ UNCHANGED <<wifi_ssid, wifi_password, api_url, WiFi_status, WiFi_begun,
                   attempts, ret, command, tft, history>>

\* loop(): drawUI().
loop_draw ==
    /\ pc = "draw"
    /\ tft' = drawUI(luca_state, WiFi_status)
    /\ serial_out' = NoOutput
    /\ pc' = "serial"
    /\ UNCHANGED <<luca_state, wifi_ssid, wifi_password, api_url, WiFi_status,
                   WiFi_begun, since_update, attempts, ret, command, history>>

\* "%.1f%%" of value * 100: the whole percent and the tenth.
PercentText(value) == <<value \div 10, value % 10>>

\* StatusReport with the arguments of Nodes: and Generation: exchanged.
StatusReport_Swapped(s) ==
    Out("=== LUCA STATUS ===",
        << PercentText(s.consciousness_level),
           PercentText(s.quantum_coherence),
           PercentText(s.akashic_connection),
           s.generation,
           s.node_count,
           IF s.is_alive THEN "YES" ELSE "NO" >>)

\* The STATUS report.
StatusReport(s) ==
    Out("=== LUCA STATUS ===",
        << PercentText(s.consciousness_level),
           PercentText(s.quantum_coherence),
           PercentText(s.akashic_connection),
           s.node_count,
           s.generation,
           IF s.is_alive THEN "YES" ELSE "NO" >>)

\* loop(): no byte is waiting on Serial.
loop_serial_idle ==
    /\ pc = "serial"
    /\ pc' = "delay"
    /\ serial_out' = NoOutput
    /\ UNCHANGED <<luca_state, wifi_ssid, wifi_password, api_url, WiFi_status,
                   WiFi_begun, since_update, attempts, ret, command, tft, history>>

\* The three configuration strings.
Config == [wifi_ssid |-> wifi_ssid, wifi_password |-> wifi_password, api_url |-> api_url]

\* What a command leaves behind: the configuration, what it printed, and
\* whether it called connectWiFi().
Effect(cfg, out, connect) == [cfg |-> cfg, out |-> out, connect |-> connect]

\* loop(), the WIFI: branch.
wifi_command(cfg, cmd) ==
    LET commaIndex == IndexOf(cmd, ",", 5)
    IN  IF commaIndex > 0
        THEN Effect([cfg EXCEPT !.wifi_ssid = Substring(cmd, 5, commaIndex),
                                !.wifi_password = SubstringFrom(cmd, commaIndex + 1)],
                    Out("WiFi credentials updated. Reconnecting...", <<>>),
                    TRUE)
        ELSE Effect(cfg, NoOutput, FALSE)

\* api_command keeping the old URL when the new one is empty.
api_command_RejectsEmpty(cfg, cmd) ==
    LET url == SubstringFrom(cmd, 4)
    IN  IF url = <<>>
        THEN Effect(cfg, NoOutput, FALSE)
        ELSE Effect([cfg EXCEPT !.api_url = url], Out("API URL updated: %s", url), FALSE)

\* api_command with api_url += in place of api_url =.
api_command_Appends(cfg, cmd) ==
    LET url == cfg.api_url \o SubstringFrom(cmd, 4)
    IN  Effect([cfg EXCEPT !.api_url = url], Out("API URL updated: %s", url), FALSE)

\* loop(), the API: branch.
api_command(cfg, cmd) ==
    LET url == SubstringFrom(cmd, 4)
    IN  Effect([cfg EXCEPT !.api_url = url], Out("API URL updated: %s", url), FALSE)

\* is_status_command with startsWith("STATUS") in place of ==.
is_status_command_Prefix(cmd) == StartsWith(cmd, Cmd_STATUS)

\* loop(), the test of the STATUS branch.
is_status_command(cmd) == cmd = Cmd_STATUS

\* loop(), the STATUS branch.
status_command(cfg, s) == Effect(cfg, StatusReport(s), FALSE)

\* loop(): the command dispatch.
dispatch(cfg, s, cmd) ==
    IF StartsWith(cmd, Prefix_WIFI) THEN wifi_command(cfg, cmd)
    ELSE IF StartsWith(cmd, Prefix_API) THEN api_command(cfg, cmd)
    ELSE IF is_status_command(cmd) THEN status_command(cfg, s)
    ELSE Effect(cfg, NoOutput, FALSE)

\* HandleCommand under while (Serial.available()), not if: the pass goes on
\* reading lines.
HandleCommand_Drains(line) ==
    LET cmd == Trim(line)
        e == dispatch(Config, luca_state, cmd)
    IN
    /\ pc = "serial"
    /\ command' = <<cmd>>
    /\ wifi_ssid' = e.cfg.wifi_ssid
    /\ wifi_password' = e.cfg.wifi_password
    /\ api_url' = e.cfg.api_url
    /\ serial_out' = e.out
    /\ pc' = IF e.connect THEN "connectWiFi" ELSE "serial"
    /\ ret' = IF e.connect THEN "loop" ELSE ret
    /\ UNCHANGED <<luca_state, WiFi_status, WiFi_begun, since_update, attempts, tft>>

\* loop(): read a line from Serial, trim it, dispatch it.
HandleCommand(line) ==
    LET cmd == Trim(line)
        e == dispatch(Config, luca_state, cmd)
    IN
    /\ pc = "serial"
    /\ command' = <<cmd>>
    /\ wifi_ssid' = e.cfg.wifi_ssid
    /\ wifi_password' = e.cfg.wifi_password
    /\ api_url' = e.cfg.api_url
    /\ serial_out' = e.out
    /\ pc' = IF e.connect THEN "connectWiFi" ELSE "delay"
    /\ ret' = IF e.connect THEN "loop" ELSE ret
    /\ UNCHANGED <<luca_state, WiFi_status, WiFi_begun, since_update, attempts, tft>>

\* loop(): a line is waiting on Serial.
loop_serial == (\E line \in Lines : HandleCommand(line)) /\ UNCHANGED history

\* loop(): delay(100), the end of the pass; command goes out of scope.
loop_delay ==
    /\ pc = "delay"
    /\ since_update' = since_update + LoopDelay
    /\ command' = <<>>
    /\ serial_out' = NoOutput
    /\ pc' = "loop"
    /\ UNCHANGED <<luca_state, wifi_ssid, wifi_password, api_url, WiFi_status,
                   WiFi_begun, attempts, ret, tft, history>>

-----------------------------------------------------------------------------

\* The last two commands read, cmd the latest.
Recorded(cmd) == IF history = <<>> THEN <<cmd>> ELSE <<history[Len(history)], cmd>>

\* The lines of a host that sends no WIFI: line.
RepeatLines == {Line_Api, Line_ApiEmpty, Line_ApiPadded, Line_Status, Line_StatusLower}

\* loop(): a line of RepeatLines is waiting on Serial; history records it.
loop_serial_recorded ==
    \E line \in RepeatLines : HandleCommand(line) /\ history' = Recorded(Trim(line))

Next ==
    \/ setup
    \/ connectWiFi
    \/ connectWiFi_poll
    \/ connectWiFi_done
    \/ loop_update
    \/ loop_draw
    \/ loop_serial_idle
    \/ loop_serial
    \/ loop_delay
    \/ LinkUp
    \/ LinkDown

Spec == Init /\ [][Next]_vars

\* The sketch under a host that sends only the lines of RepeatLines, with the
\* last two commands recorded.  No WIFI: line sets wifi_ssid, so connectWiFi()
\* returns at its first test, WiFi.begin() is never called and the link never
\* comes up: the steps of the polling loop and of the link are never enabled.
NextRepeat ==
    \/ setup
    \/ connectWiFi
    \/ loop_update
    \/ loop_draw
    \/ loop_serial_idle
    \/ loop_serial_recorded
    \/ loop_delay

SpecRepeat == Init /\ [][NextRepeat]_vars

\* The lines of a host that sets credentials, clears them and asks for STATUS.
CredentialLines == {Line_WifiHome, Line_WifiEmptySsid, Line_Status}

\* loop(): a line of CredentialLines is waiting on Serial.
loop_serial_credentials ==
    (\E line \in CredentialLines : HandleCommand(line)) /\ UNCHANGED history

\* The next statement of the sketch under that host, whichever it is.
SketchStep ==
    \/ setup
    \/ connectWiFi
    \/ connectWiFi_poll
    \/ connectWiFi_done
    \/ loop_update
    \/ loop_draw
    \/ loop_serial_idle
    \/ loop_serial_credentials
    \/ loop_delay

NextFair ==
    \/ SketchStep
    \/ LinkUp
    \/ LinkDown

\* The sketch under that host, on a processor that keeps running: setup()
\* returns into loop(), loop() is called again whenever it returns, and
\* delay() returns.  Nothing is asked of the link, which may come up, drop,
\* or do neither.
SpecFair == Init /\ [][NextFair]_vars /\ WF_vars(SketchStep)

-----------------------------------------------------------------------------
(* Vocabulary of the properties *)

\* The pass of loop() that is about to run refreshes luca_state.
RefreshDue == pc = "loop" /\ since_update >= UpdateInterval

\* The step is the start of a pass of loop() that refreshes luca_state.
Refreshes == RefreshDue /\ pc' = "draw"

\* The step reads cmd from Serial and dispatches it.
Reads(cmd) == pc = "serial" /\ command' = <<cmd>>

\* The step is the first part of a pass of loop(): the due test and what
\* follows from it.
Ticks == pc = "loop" /\ pc' = "draw"

\* The step reads a WIFI: or an API: command.
ReadsConfigCommand ==
    \E cmd \in {Trim(line) : line \in Lines} :
        Reads(cmd) /\ (StartsWith(cmd, Prefix_WIFI) \/ StartsWith(cmd, Prefix_API))

\* The step is the entry of connectWiFi(), up to its return or its first poll.
EntersConnect == pc = "connectWiFi" /\ pc' # "connectWiFi"

\* The commands (trimmed lines) the host can send.
Commands == {Trim(line) : line \in Lines}

\* cmd starts with the five characters WIFI:
IsWifiLine(cmd) == Len(cmd) >= 5 /\ \A i \in 1..5 : cmd[i] = Prefix_WIFI[i]

\* cmd starts with the four characters API:
IsApiLine(cmd) == Len(cmd) >= 4 /\ \A i \in 1..4 : cmd[i] = Prefix_API[i]

\* What follows the first n characters of cmd.
After(cmd, n) == [i \in 1..(Len(cmd) - n) |-> cmd[i + n]]

HasComma(p) == \E k \in 1..Len(p) : p[k] = ","

\* The place of the first comma of p, which has one.
FirstComma(p) == CHOOSE k \in 1..Len(p) : p[k] = "," /\ \A j \in 1..(k - 1) : p[j] # ","

\* The part of p before its place k, and the part after it.
Before(p, k) == [i \in 1..(k - 1) |-> p[i]]

Behind(p, k) == [i \in 1..(Len(p) - k) |-> p[i + k]]

\* Every payload of at most MaxPayload characters over a letter and the comma.
SmallPayloads == UNION {[1..n -> {"a", ","}] : n \in 0..MaxPayload}

\* The command step leaves luca_state, the time of its last update, the link
\* and the screen alone.
CommandFrame ==
    UNCHANGED <<luca_state, since_update, WiFi_status, WiFi_begun, attempts, tft>>

\* The step is a refresh with the link up, or with the link down.
RefreshesConnected == Refreshes /\ WiFi_status = "WL_CONNECTED"

RefreshesOffline == Refreshes /\ WiFi_status # "WL_CONNECTED"

\* Gauge g of s lies at least 0 and at most jitter above base.
Within(s, g, base, jitter) == s[g] >= base /\ s[g] - base <= jitter

GaugesInRange(s) ==
    /\ s.consciousness_level \in 0..1000
    /\ s.quantum_coherence \in 0..1000
    /\ s.akashic_connection \in 0..1000

-----------------------------------------------------------------------------
(* C1 *)

\* C1: a refresh, on the fetchLUCAStatus path or on the demo path, adds
\* exactly 1 to generation, and no other step changes generation; so
\* generation never decreases.
C1_GenerationStep ==
    [][ /\ Refreshes => luca_state'.generation = luca_state.generation + 1
        /\ ~Refreshes => luca_state'.generation = luca_state.generation
        /\ luca_state'.generation >= luca_state.generation ]_vars

\* The second refresh took the connected path and the first took the demo
\* path: the frame still on the screen shows generation 1 with a
\* consciousness bar below the connected path's least.
C1_Witness ==
    /\ pc = "draw"
    /\ luca_state.generation = 2
    /\ luca_state.consciousness_level >= 850
    /\ tft.gen = 1
    /\ tft.fill[1] < drawConsciousnessBar(850)

-----------------------------------------------------------------------------
(* C2 *)

\* C2: in every reachable state each of the three gauges lies in [0.0, 1.0];
\* and where a refresh is due, every value each random() call can return
\* leaves the gauge it feeds in [0.0, 1.0], on either path.
C2_GaugesInRange ==
    /\ GaugesInRange(luca_state)
    /\ RefreshDue =>
         /\ \A r \in Random(100) :
               /\ GaugesInRange(MockLUCAStatus(luca_state, r, 0, 0, 0))
               /\ GaugesInRange(MockLUCAStatus(luca_state, 0, r, 0, 0))
               /\ GaugesInRange(MockLUCAStatus(luca_state, 0, 0, r, 0))
               /\ GaugesInRange(fetchLUCAStatus(luca_state, r, 0, 0, 0))
         /\ \A r \in Random(50) :
               /\ GaugesInRange(fetchLUCAStatus(luca_state, 0, r, 0, 0))
               /\ GaugesInRange(fetchLUCAStatus(luca_state, 0, 0, r, 0))

\* A refresh on the connected path drew the most every random() can return.
C2_Witness ==
    /\ luca_state.generation > 0
    /\ luca_state.consciousness_level = 949
    /\ luca_state.quantum_coherence = 969
    /\ luca_state.akashic_connection = 929

-----------------------------------------------------------------------------
(* C3 *)

\* C3: is_alive equals (consciousness_level > 0.9) in every state, the
\* initial one included, and only a refresh changes is_alive.
C3_IsAliveDerived ==
    /\ [](luca_state.is_alive <=> luca_state.consciousness_level > 900)
    /\ [][~Refreshes => luca_state'.is_alive = luca_state.is_alive]_vars

\* A refresh has set is_alive, and the sketch is past it, handling Serial.
C3_Witness ==
    /\ luca_state.is_alive
    /\ luca_state.consciousness_level > 900
    /\ pc = "delay"
    /\ command # <<>>

-----------------------------------------------------------------------------
(* C4 *)

\* C4: for a command WIFI:<ssid>,<secret>, wifi_ssid becomes the text between
\* the prefix and the first comma after it, wifi_password everything behind
\* that comma (commas included), and connectWiFi() is called; WIFI:home,secret123
\* gives "home" and "secret123".  The parsing is also tried on every small
\* payload that has a comma.
C4_WifiParsed ==
    [][ \A cmd \in Commands :
          (Reads(cmd) /\ IsWifiLine(cmd) /\ HasComma(After(cmd, 5))) =>
            LET p == After(cmd, 5)
                k == FirstComma(p)
            IN  /\ wifi_ssid' = Before(p, k)
                /\ wifi_password' = Behind(p, k)
                /\ pc' = "connectWiFi"
                /\ cmd = Line_WifiHome =>
                     /\ wifi_ssid' = <<"h", "o", "m", "e">>
                     /\ wifi_password' = <<"s", "e", "c", "r", "e", "t", "1", "2", "3">>
                /\ \A q \in SmallPayloads :
                     HasComma(q) =>
                       LET e == dispatch(Config, luca_state, Prefix_WIFI \o q)
                       IN  /\ e.cfg.wifi_ssid = Before(q, FirstComma(q))
                           /\ e.cfg.wifi_password = Behind(q, FirstComma(q))
                           /\ e.connect ]_vars

\* WIFI:a,b,c has been read: the secret is "b,c" and connectWiFi() is entered.
C4_Witness ==
    /\ pc = "connectWiFi"
    /\ command = <<Line_WifiCommas>>
    /\ wifi_ssid = <<"a">>
    /\ wifi_password = <<"b", ",", "c">>

-----------------------------------------------------------------------------
(* C5 *)

\* C5: a command that starts with WIFI: and has no comma behind the prefix
\* leaves wifi_ssid, wifi_password and api_url as they were and does not call
\* connectWiFi().  The parsing is also tried on every small payload without a
\* comma.
C5_WifiNoComma ==
    [][ \A cmd \in Commands :
          (Reads(cmd) /\ IsWifiLine(cmd) /\ ~HasComma(After(cmd, 5))) =>
            /\ UNCHANGED <<wifi_ssid, wifi_password, api_url>>
            /\ pc' = "delay"
            /\ CommandFrame
            /\ \A q \in SmallPayloads :
                 ~HasComma(q) =>
                   LET e == dispatch(Config, luca_state, Prefix_WIFI \o q)
                   IN  e.cfg = Config /\ ~e.connect ]_vars

\* WIFI:noSecretHere has been read after credentials had been set: they are
\* still there, and the pass goes on to its delay.
C5_Witness ==
    /\ pc = "delay"
    /\ command = <<Line_WifiNoComma>>
    /\ wifi_ssid = <<"h", "o", "m", "e">>
    /\ wifi_password = <<"s", "e", "c", "r", "e", "t", "1", "2", "3">>

-----------------------------------------------------------------------------
(* C6 *)

\* C6: for a command API:<url>, api_url becomes everything behind the four
\* characters of the prefix, as it stands (an empty payload gives the empty
\* string); wifi_ssid, wifi_password, luca_state and the link are as they
\* were and connectWiFi() is not called.
C6_ApiVerbatim ==
    [][ \A cmd \in Commands :
          (Reads(cmd) /\ IsApiLine(cmd)) =>
            /\ api_url' = After(cmd, 4)
            /\ UNCHANGED <<wifi_ssid, wifi_password>>
            /\ pc' = "delay"
            /\ CommandFrame
            /\ \A q \in SmallPayloads :
                 LET e == dispatch(Config, luca_state, Prefix_API \o q)
                 IN  e.cfg = [Config EXCEPT !.api_url = q] /\ ~e.connect ]_vars

\* API: has been read, with credentials set: api_url is empty.
C6_Witness ==
    /\ pc = "delay"
    /\ command = <<Line_ApiEmpty>>
    /\ api_url = <<>>
    /\ wifi_ssid = <<"h", "o", "m", "e">>

-----------------------------------------------------------------------------
(* C7 *)

\* C7: the STATUS command changes no field of luca_state, not the time of its
\* last update, none of the three configuration strings, does not call
\* connectWiFi(), and reports the node_count, generation and is_alive that
\* luca_state holds when the command is read.
C7_StatusPureRead ==
    [][ Reads(Cmd_STATUS) =>
          /\ UNCHANGED <<wifi_ssid, wifi_password, api_url>>
          /\ CommandFrame
          /\ pc' = "delay"
          /\ serial_out'.msg = "=== LUCA STATUS ==="
          /\ serial_out'.arg[4] = luca_state.node_count
          /\ serial_out'.arg[5] = luca_state.generation
          /\ serial_out'.arg[6] = (IF luca_state.is_alive THEN "YES" ELSE "NO") ]_vars

\* STATUS has been read after two refreshes, the second one alive.
C7_Witness ==
    /\ pc = "delay"
    /\ command = <<Cmd_STATUS>>
    /\ serial_out.msg = "=== LUCA STATUS ==="
    /\ serial_out.arg[5] = 2
    /\ serial_out.arg[6] = "YES"
    /\ luca_state.generation = 2

-----------------------------------------------------------------------------
(* C8 *)

\* C8: drawConsciousnessBar() never passes a negative width to fillRect():
\* no bar on the screen has one, and the width for value 1.0 is the full
\* inner width of the bar.
C8_NoNegativeFill ==
    /\ \A i \in DOMAIN tft.fill : tft.fill[i] >= 0
    /\ drawConsciousnessBar(1000) = SCREEN_WIDTH - BarMargin - 2

-----------------------------------------------------------------------------
(* C9 *)

\* C9: reading the API: command that was the last command read leaves api_url
\* and everything else the command could touch as the first reading left it.
C9_ApiIdempotent ==
    [][ \A cmd \in Commands :
          ( /\ Reads(cmd)
            /\ IsApiLine(cmd)
            /\ history # <<>>
            /\ history[Len(history)] = cmd ) =>
            /\ UNCHANGED <<wifi_ssid, wifi_password, api_url>>
            /\ CommandFrame
            /\ pc' = "delay" ]_vars

\* The padded API: line has been read twice in a row.
C9_Witness ==
    /\ pc = "delay"
    /\ history = <<Trim(Line_ApiPadded), Trim(Line_ApiPadded)>>
    /\ command = <<Trim(Line_ApiPadded)>>
    /\ api_url = <<" ", "u">>

-----------------------------------------------------------------------------
(* C10 *)

\* C10: a command that neither starts with WIFI: nor with API: and is not
\* STATUS changes nothing of luca_state and of the configuration, does not
\* call connectWiFi() and prints nothing.
C10_OtherIgnored ==
    [][ \A cmd \in Commands :
          (Reads(cmd) /\ ~IsWifiLine(cmd) /\ ~IsApiLine(cmd) /\ cmd # Cmd_STATUS) =>
            /\ UNCHANGED <<wifi_ssid, wifi_password, api_url>>
            /\ CommandFrame
            /\ pc' = "delay"
            /\ serial_out' = NoOutput ]_vars

\* "STATUS x" has been read after a refresh and with credentials set.
C10_Witness ==
    /\ pc = "delay"
    /\ command = <<Line_StatusPayload>>
    /\ serial_out = NoOutput
    /\ luca_state.generation > 0
    /\ wifi_ssid # <<>>

-----------------------------------------------------------------------------
(* C11 *)

\* C11: only the refresh of a pass of loop() changes luca_state or moves the
\* time of its last update (outside a refresh the time since the last update
\* never shrinks); and only a step that reads a WIFI: or an API: command
\* changes wifi_ssid, wifi_password or api_url.  Drawing, the other commands,
\* connectWiFi() and the link change neither.
C11_SingleWriter ==
    [][ /\ ~Refreshes => (luca_state' = luca_state /\ since_update' >= since_update)
        /\ ~ReadsConfigCommand => UNCHANGED <<wifi_ssid, wifi_password, api_url>> ]_vars

\* A WIFI: command set the credentials after a refresh, and the connect
\* attempt it started has failed: the credentials and luca_state are as the
\* command and the refresh left them.
C11_Witness ==
    /\ pc = "delay"
    /\ command = <<Line_WifiHome>>
    /\ serial_out.msg = "WiFi connection failed"
    /\ wifi_ssid = <<"h", "o", "m", "e">>
    /\ wifi_password = <<"s", "e", "c", "r", "e", "t", "1", "2", "3">>
    /\ luca_state.generation = 1

-----------------------------------------------------------------------------
(* C12 *)

\* C12: a pass of loop() that starts less than 5000 ms after the last update
\* leaves luca_state and the time of the last update alone; a pass that starts
\* 5000 ms or more after it refreshes once (generation + 1) and sets the time
\* of the last update to now.  So luca_state changes only when 5000 ms or more
\* have passed since it last did, and by at most one generation in a step.
C12_RefreshCadence ==
    [][ /\ (Ticks /\ since_update < UpdateInterval) =>
              (luca_state' = luca_state /\ since_update' = since_update)
        /\ (Ticks /\ since_update >= UpdateInterval) =>
              /\ luca_state'.generation = luca_state.generation + 1
              /\ since_update' = 0
        /\ luca_state' # luca_state => since_update >= UpdateInterval
        /\ luca_state'.generation <= luca_state.generation + 1 ]_vars

\* The second refresh has just been applied, exactly 5000 ms after the first,
\* both offline: the frame on the screen is still that of generation 1.
C12_Witness ==
    /\ pc = "draw"
    /\ since_update = 0
    /\ luca_state.generation = 2
    /\ luca_state.consciousness_level < 850
    /\ tft.gen = 1
    /\ ~WiFi_begun

-----------------------------------------------------------------------------
(* C13 *)

\* C13: a pass of loop() that is due refreshes, whether the link is up, down,
\* or an attempt to bring it up has just failed; as long as generation is
\* below the bound of the model the sketch has a next step to take; and
\* generation grows beyond every value it takes below that bound.
C13_GenerationAdvances ==
    /\ [][ (Ticks /\ since_update >= UpdateInterval) =>
              luca_state'.generation = luca_state.generation + 1 ]_vars
    /\ [](luca_state.generation < MaxGeneration => ENABLED SketchStep)
    /\ \A g \in 0..(MaxGeneration - 1) :
          (luca_state.generation = g) ~> (luca_state.generation > g)

\* The second refresh has been applied offline, with credentials set and
\* WiFi.begin() called: a connect attempt has been made and the link is down.
C13_Witness ==
    /\ pc = "draw"
    /\ since_update = 0
    /\ luca_state.generation = 2
    /\ luca_state.consciousness_level < 850
    /\ WiFi_begun
    /\ WiFi_status = "WL_DISCONNECTED"
    /\ wifi_ssid = <<"h", "o", "m", "e">>

-----------------------------------------------------------------------------
(* C14 *)

\* C14, as claimed: a refresh with the link down leaves every gauge at most
\* 0.1 above its base 0.65, 0.75, 0.70, and a refresh with the link up leaves
\* every gauge at most 0.05 above its base 0.85, 0.92, 0.88.
C14_JitterAsClaimed ==
    [][ /\ RefreshesOffline =>
              /\ Within(luca_state', "consciousness_level", 650, 100)
              /\ Within(luca_state', "quantum_coherence", 750, 100)
              /\ Within(luca_state', "akashic_connection", 700, 100)
        /\ RefreshesConnected =>
              /\ Within(luca_state', "consciousness_level", 850, 50)
              /\ Within(luca_state', "quantum_coherence", 920, 50)
              /\ Within(luca_state', "akashic_connection", 880, 50) ]_vars

\* C14, amended: as claimed, but with the link up consciousness_level is at
\* most 0.1 above its base 0.85 (quantum_coherence and akashic_connection are
\* at most 0.05 above 0.92 and 0.88).  The bounds are also tried on every
\* value each random() call can return.
C14_JitterBounds ==
    [][ /\ RefreshesOffline =>
              /\ Within(luca_state', "consciousness_level", 650, 100)
              /\ Within(luca_state', "quantum_coherence", 750, 100)
              /\ Within(luca_state', "akashic_connection", 700, 100)
              /\ \A r \in Random(100) :
                    LET t == MockLUCAStatus(luca_state, r, r, r, 0)
                    IN  /\ Within(t, "consciousness_level", 650, 100)
                        /\ Within(t, "quantum_coherence", 750, 100)
                        /\ Within(t, "akashic_connection", 700, 100)
        /\ RefreshesConnected =>
              /\ Within(luca_state', "consciousness_level", 850, 100)
              /\ Within(luca_state', "quantum_coherence", 920, 50)
              /\ Within(luca_state', "akashic_connection", 880, 50)
              /\ \A r \in Random(100) :
                    Within(fetchLUCAStatus(luca_state, r, 0, 0, 0),
                           "consciousness_level", 850, 100)
              /\ \A r \in Random(50) :
                    LET t == fetchLUCAStatus(luca_state, 0, r, r, 0)
                    IN  /\ Within(t, "quantum_coherence", 920, 50)
                        /\ Within(t, "akashic_connection", 880, 50) ]_vars

\* A refresh with the link up has left consciousness_level more than 0.05
\* above 0.85, the other two gauges at their most.
C14_Witness ==
    /\ pc = "draw"
    /\ since_update = 0
    /\ WiFi_status = "WL_CONNECTED"
    /\ luca_state.consciousness_level = 949
    /\ luca_state.quantum_coherence = 969
    /\ luca_state.akashic_connection = 929
    /\ luca_state.node_count = 12

-----------------------------------------------------------------------------
(* C15 *)

\* C15: connectWiFi() entered with an empty wifi_ssid returns at once, to
\* setup() or to loop(): WiFi.begin() is not called, no poll is made, no time
\* passes, and the link, the configuration and luca_state are as they were.
\* WIFI:,x is such a case: it sets an empty wifi_ssid and calls connectWiFi().
C15_EmptySsidNoOp ==
    [][ /\ (EntersConnect /\ wifi_ssid = <<>>) =>
              /\ pc' = (IF ret = "loop" THEN "delay" ELSE "loop")
              /\ UNCHANGED <<WiFi_begun, WiFi_status, attempts, since_update>>
              /\ UNCHANGED <<wifi_ssid, wifi_password, api_url, luca_state, tft>>
        /\ Reads(Line_WifiEmptySsid) =>
              (wifi_ssid' = <<>> /\ pc' = "connectWiFi" /\ CommandFrame) ]_vars

\* WIFI:,x has been read while the link was up under other credentials, and
\* connectWiFi() has returned at its first test: the link is still up.
C15_Witness ==
    /\ pc = "delay"
    /\ command = <<Line_WifiEmptySsid>>
    /\ serial_out.msg = "No WiFi credentials set. Use: WIFI:ssid,password"
    /\ wifi_ssid = <<>>
    /\ wifi_password = <<"x">>
    /\ WiFi_status = "WL_CONNECTED"
    /\ attempts = 0

-----------------------------------------------------------------------------
(* C16 *)

\* C16: connectWiFi() polls only while the link is not connected, 500 ms a
\* poll, and never more than 20 times; it leaves its loop only when the link
\* is connected or 20 polls have been made, and then returns to its caller,
\* reporting failure when the link is not connected; and whatever the link
\* does, a connectWiFi() that has been entered leads to the start of the next
\* pass of loop().
C16_ConnectTerminates ==
    /\ [](attempts <= MaxAttempts)
    /\ [][ /\ (pc = "poll" /\ pc' = "poll" /\ attempts' # attempts) =>
              /\ WiFi_status # "WL_CONNECTED"
              /\ attempts' = attempts + 1
              /\ since_update' = since_update + PollDelay
        /\ (pc = "poll" /\ pc' # "poll") =>
              /\ WiFi_status = "WL_CONNECTED" \/ attempts = MaxAttempts
              /\ pc' = (IF ret = "loop" THEN "delay" ELSE "loop")
              /\ WiFi_status # "WL_CONNECTED" =>
                    serial_out'.msg = "WiFi connection failed" ]_vars
    /\ (pc \in {"connectWiFi", "poll"}) ~> (pc = "loop")

\* connectWiFi() has returned to loop() after 20 polls, 10 s, without the link.
C16_Witness ==
    /\ pc = "delay"
    /\ ret = "loop"
    /\ serial_out.msg = "WiFi connection failed"
    /\ WiFi_status = "WL_DISCONNECTED"
    /\ since_update >= MaxAttempts * PollDelay
    /\ attempts = 0

-----------------------------------------------------------------------------
(* C17 *)

\* C17: a pass of loop() goes from its due test and refresh to the redraw,
\* from the redraw to Serial, and from Serial, after at most one line, to its
\* delay, by way of connectWiFi() for a WIFI: command.  The redraw draws the
\* luca_state the refresh of the same pass left; the screen changes in no
\* other step, so not in the step that handles a command; a line is read only
\* when none has been read in this pass; and inside connectWiFi() there is no
\* refresh, no redraw and no reading of Serial.
C17_TickOrder ==
    [][ /\ pc = "loop" => pc' \in {"loop", "draw"}
        /\ pc = "draw" => pc' \in {"draw", "serial"}
        /\ pc = "serial" => pc' \in {"serial", "delay", "connectWiFi"}
        /\ pc = "connectWiFi" => pc' \in {"connectWiFi", "poll", "delay", "loop"}
        /\ pc = "poll" => pc' \in {"poll", "delay", "loop"}
        /\ pc = "delay" => pc' \in {"delay", "loop"}
        /\ (pc = "draw" /\ pc' = "serial") =>
              /\ luca_state' = luca_state
              /\ tft'.gen = luca_state.generation
              /\ tft'.nodes = luca_state.node_count
              /\ tft'.alive = luca_state.is_alive
        /\ tft' # tft => pc = "draw"
        /\ luca_state' # luca_state => pc = "loop"
        /\ command' # command =>
              \/ pc = "serial" /\ command = <<>> /\ pc' # "serial"
              \/ pc = "delay" /\ command' = <<>>
        /\ pc \in {"connectWiFi", "poll"} => UNCHANGED <<luca_state, tft, command>> ]_vars

\* A connect attempt started by WIFI:home,secret123 is at its 20th poll: the
\* refresh has been due for 5 s and more, and the screen and luca_state are
\* those of the redraw before the command.
C17_Witness ==
    /\ pc = "poll"
    /\ ret = "loop"
    /\ attempts = MaxAttempts
    /\ command = <<Line_WifiHome>>
    /\ since_update >= 2 * UpdateInterval
    /\ luca_state.generation = 1
    /\ tft.gen = 1

-----------------------------------------------------------------------------
(* C18 *)

\* C18: whenever drawUI() is about to run, less than 5000 ms lie between the
\* millis() this pass of loop() read and the last update, however long the
\* pass before it was held up in connectWiFi(); and a refresh takes the values
\* of the path that matches the link as it is at the refresh: with the link up
\* those of fetchLUCAStatus() (consciousness_level from 0.85, node_count from
\* 8), with the link down the demo values (consciousness_level below 0.75,
\* quantum_coherence below 0.85).
C18_NeverStale ==
    /\ [](pc = "draw" => since_update < UpdateInterval)
    /\ [][ /\ RefreshesConnected =>
                /\ luca_state'.consciousness_level >= 850
                /\ luca_state'.node_count >= 8
           /\ RefreshesOffline =>
                /\ luca_state'.consciousness_level < 750
                /\ luca_state'.quantum_coherence < 850 ]_vars

\* The first refresh since the link came up has just been applied, in the
\* pass of loop() after the connect attempt: the frame still on the screen
\* says Offline and shows the generation before, luca_state holds connected
\* values of age 0.
C18_Witness ==
    /\ pc = "draw"
    /\ since_update = 0
    /\ ret = "loop"
    /\ WiFi_status = "WL_CONNECTED"
    /\ tft.status = "Offline"
    /\ tft.gen = 1
    /\ tft.fill[1] < drawConsciousnessBar(750)
    /\ luca_state.generation = 2
    /\ luca_state.consciousness_level >= 850

-----------------------------------------------------------------------------
(* C19 *)

\* C19: a refresh with the link down leaves consciousness_level below 0.9 and
\* is_alive false, for every value random(100) can return; is_alive becomes
\* true only in a refresh with the link up; no other step, the loss of the
\* link included, changes it; and it is false before the first refresh.
C19_AliveOnlyConnected ==
    /\ [](luca_state.generation = 0 => ~luca_state.is_alive)
    /\ [][ /\ RefreshesOffline =>
                /\ luca_state'.consciousness_level < 900
                /\ ~luca_state'.is_alive
                /\ \A r \in Random(100) :
                      LET t == MockLUCAStatus(luca_state, r, 0, 0, 0)
                      IN  t.consciousness_level < 900 /\ ~t.is_alive
           /\ (~luca_state.is_alive /\ luca_state'.is_alive) => RefreshesConnected
           /\ ~Refreshes => luca_state'.is_alive = luca_state.is_alive ]_vars

\* The link has dropped after a refresh that set is_alive, and the screen has
\* been redrawn since: it says Offline and shows the liveness indicator.
C19_Witness ==
    /\ luca_state.is_alive
    /\ WiFi_status = "WL_DISCONNECTED"
    /\ tft.status = "Offline"
    /\ tft.alive
    /\ tft.gen = luca_state.generation

-----------------------------------------------------------------------------
(* C20 *)

\* C20: in every state, if the link is connected then wifi_ssid is not empty.
C20_ConnectedIsConfigured ==
    WiFi_status = "WL_CONNECTED" => wifi_ssid # <<>>

====
